---- MODULE Spec2Model ----
(***************************************************************************)
(* Model of the weather-backend analytics core: calendar filters,          *)
(* probability and statistics (utils/calculations.py) and the endpoints    *)
(* that use them (routers/probability.py).                                 *)
(*                                                                         *)
(* Encodings.                                                              *)
(*   - A date key is the sequence of its characters; a character is a      *)
(*     number: 0..9 is the digit, X is a letter.                           *)
(*   - A series (a Python dict, iterated in insertion order) is a sequence *)
(*     of entries [d |-> key, v |-> value] with pairwise distinct keys.    *)
(*   - A reading is an integer; None is the reserved number None, and      *)
(*     MISSING (-999) is the provider's sentinel.                          *)
(*   - A probability is an integer number of thousandths (round(., 3)),    *)
(*     a statistic an integer number of hundredths (round(., 2)).          *)
(***************************************************************************)
EXTENDS Integers, Sequences, FiniteSets, TLC

VARIABLES
  series,    \* unit level: the series or polygon handed to the function under test
  call,      \* unit level: the function applied and its arguments
  out,       \* unit level: what the function returned
  loop,      \* unit level: the loops of sample_polygon_to_grid while it runs
  pc,        \* endpoint level: position of the request handler
  req,       \* endpoint level: the request being served
  points,    \* region endpoint: the sampling list
  fetched,   \* the results get_nasa_power_data has returned so far
  data,      \* the handler's local `data` after filtering (last point)
  probs,     \* region endpoint: per-point probabilities collected
  counts,    \* region endpoint: per-point numbers of valid values
  agg_vals,  \* region endpoint: pooled valid values
  resp       \* the response or error sent to the caller

vars == <<series, call, out, loop, pc, req, points, fetched, data, probs, counts, agg_vals, resp>>

unitVars == <<series, call, out, loop>>
apiVars == <<pc, req, points, fetched, data, probs, counts, agg_vals, resp>>

----------------------------------------------------------------------------
(* Values *)

None == -1000000
MISSING == -999
X == 10
NoSeason == ""

EmptySeries == << >>

----------------------------------------------------------------------------
(* Bounds *)

MaxSeriesLen == 3

----------------------------------------------------------------------------
(* Python's int(), str slicing and datetime.strptime(d, "%Y%m%d") *)

IsDigit(c) == c \in 0..9

AllDigits(s) == \A j \in 1..Len(s) : IsDigit(s[j])

RECURSIVE DigitsValue(_)
DigitsValue(s) ==
  IF Len(s) = 0 THEN 0
  ELSE 10 * DigitsValue(SubSeq(s, 1, Len(s) - 1)) + s[Len(s)]

\* d[a:b] with 0-based, end-exclusive, truncating slice bounds
Slice(d, a, b) ==
  LET hi == IF b < Len(d) THEN b ELSE Len(d)
  IN IF a >= hi THEN << >> ELSE SubSeq(d, a + 1, hi)

\* int(s): a value, or a ValueError (reported as ok = FALSE)
int(s) ==
  IF Len(s) > 0 /\ AllDigits(s)
  THEN [ok |-> TRUE, val |-> DigitsValue(s)]
  ELSE [ok |-> FALSE, val |-> 0]

IsLeap(y) == (y % 4 = 0 /\ y % 100 # 0) \/ y % 400 = 0

DaysInMonth(y, m) ==
  IF m = 2 THEN (IF IsLeap(y) THEN 29 ELSE 28)
  ELSE IF m \in {4, 6, 9, 11} THEN 30 ELSE 31

RECURSIVE DaysBefore(_, _)
DaysBefore(y, m) ==
  IF m <= 1 THEN 0 ELSE DaysBefore(y, m - 1) + DaysInMonth(y, m - 1)

tm_yday(y, m, dd) == DaysBefore(y, m) + dd

\* The %m directive: 1[0-2] | 0[1-9] | [1-9], tried in that order at p
MatchMonth(d, p) ==
  LET c1 == IF p <= Len(d) THEN d[p] ELSE X
      c2 == IF p + 1 <= Len(d) THEN d[p + 1] ELSE X
  IN IF c1 = 1 /\ c2 \in 0..2 THEN [ok |-> TRUE, val |-> 10 + c2, next |-> p + 2]
     ELSE IF c1 = 0 /\ c2 \in 1..9 THEN [ok |-> TRUE, val |-> c2, next |-> p + 2]
     ELSE IF c1 \in 1..9 THEN [ok |-> TRUE, val |-> c1, next |-> p + 1]
     ELSE [ok |-> FALSE, val |-> 0, next |-> p]

\* The %d directive: 3[0-1] | [1-2]\d | 0[1-9] | [1-9], tried in that order
MatchDay(d, p) ==
  LET c1 == IF p <= Len(d) THEN d[p] ELSE X
      c2 == IF p + 1 <= Len(d) THEN d[p + 1] ELSE X
  IN IF c1 = 3 /\ c2 \in 0..1 THEN [ok |-> TRUE, val |-> 30 + c2, next |-> p + 2]
     ELSE IF c1 \in 1..2 /\ IsDigit(c2) THEN [ok |-> TRUE, val |-> 10 * c1 + c2, next |-> p + 2]
     ELSE IF c1 = 0 /\ c2 \in 1..9 THEN [ok |-> TRUE, val |-> c2, next |-> p + 2]
     ELSE IF c1 \in 1..9 THEN [ok |-> TRUE, val |-> c1, next |-> p + 1]
     ELSE [ok |-> FALSE, val |-> 0, next |-> p]

NoDate == [ok |-> FALSE, year |-> 0, month |-> 0, day |-> 0]

\* The regular expression of "%Y%m%d" found at the start of d: when no day
\* follows the two-character month 1[0-2], the month falls back to [1-9]
MonthDay(m, dd, d6) ==
  IF m.ok /\ ~dd.ok /\ m.next = 7 /\ m.val >= 10
  THEN [ok |-> d6.ok, month |-> 1, day |-> d6.val, next |-> d6.next]
  ELSE [ok |-> m.ok /\ dd.ok, month |-> m.val, day |-> dd.val, next |-> dd.next]

MatchDayAfter(d, m) == MonthDay(m, MatchDay(d, m.next), MatchDay(d, 6))

MatchMonthDay(d) == MatchDayAfter(d, MatchMonth(d, 5))

\* datetime.strptime(d, "%Y%m%d"): a date, or a ValueError (ok = FALSE)
\* The date of the matched fields, or the ValueError of the checks after the match
CheckedDate(len, y, md) ==
  IF ~md.ok THEN NoDate
  ELSE IF md.next # len + 1 THEN NoDate                  \* unconverted data remains
  ELSE IF y < 1 THEN NoDate                              \* year out of range
  ELSE IF md.day > DaysInMonth(y, md.month) THEN NoDate  \* day out of range for month
  ELSE [ok |-> TRUE, year |-> y, month |-> md.month, day |-> md.day]

\* datetime.strptime(d, "%Y%m%d"): a date, or a ValueError (ok = FALSE)
strptime(d) ==
  IF Len(d) < 4 \/ ~AllDigits(SubSeq(d, 1, 4)) THEN NoDate
  ELSE CheckedDate(Len(d), DigitsValue(SubSeq(d, 1, 4)), MatchMonthDay(d))

----------------------------------------------------------------------------
(* utils/calculations.py: the calendar filters *)

SEASON_MONTHS ==
  [djf |-> {12, 1, 2}, mam |-> {3, 4, 5}, jja |-> {6, 7, 8}, son |-> {9, 10, 11}]

\* Python truthiness of an Optional[int]
Truthy(x) == x # None /\ x # 0

DateInMonth(date_obj, month) == date_obj.ok /\ date_obj.month = month

MonthKeepsBeforeDecember(e, month) == month # 12 /\ DateInMonth(strptime(e.d), month)

MonthKeeps(e, month) == DateInMonth(strptime(e.d), month)

filter_data_by_month(param_data, month) ==
  SelectSeq(param_data, LAMBDA e : MonthKeeps(e, month))

YearRangeKeeps(e, start_year, end_year) ==
  LET y == int(Slice(e.d, 0, 4))
  IN /\ y.ok
     /\ (start_year = None \/ y.val >= start_year)
     /\ (end_year = None \/ y.val <= end_year)

filter_by_year_range(param_data, start_year, end_year) ==
  IF ~Truthy(start_year) /\ ~Truthy(end_year) THEN param_data
  ELSE SelectSeq(param_data, LAMBDA e : YearRangeKeeps(e, start_year, end_year))

SeasonKeeps(e, months) ==
  LET m == int(Slice(e.d, 4, 6))
  IN m.ok /\ m.val \in months

filter_by_season(param_data, season) ==
  IF season = NoSeason THEN param_data
  ELSE SelectSeq(param_data, LAMBDA e : SeasonKeeps(e, SEASON_MONTHS[season]))

DateOnDoy(dt, doy) == dt.ok /\ tm_yday(dt.year, dt.month, dt.day) = doy

DoyKeeps(e, doy) == DateOnDoy(strptime(e.d), doy)

filter_by_doy(param_data, doy) ==
  IF ~Truthy(doy) THEN param_data
  ELSE SelectSeq(param_data, LAMBDA e : DoyKeeps(e, doy))

----------------------------------------------------------------------------
(* utils/calculations.py: probability and statistics *)

\* round(n / d, k) on the scaled integers: nearest integer to n / d, d > 0,
\* an exact tie going to the even neighbour
RoundHalfEven(n, d) ==
  LET q == n \div d
      r == n - q * d
  IN IF 2 * r < d THEN q
     ELSE IF 2 * r > d THEN q + 1
     ELSE IF q % 2 = 0 THEN q ELSE q + 1

IsValid(v) == v # None /\ v # MISSING

\* [v for v in filtered_data.values() if v is not None and v != -999]
RECURSIVE ValidValues(_)
ValidValues(filtered_data) ==
  IF Len(filtered_data) = 0 THEN << >>
  ELSE LET v == Head(filtered_data).v
       IN IF IsValid(v) THEN <<v>> \o ValidValues(Tail(filtered_data))
          ELSE ValidValues(Tail(filtered_data))

\* Mutant of Satisfies: a value equal to the threshold counts
SatisfiesInclusive(v, threshold, condition_type) ==
  IF condition_type = "above" THEN v >= threshold ELSE v <= threshold

Satisfies(v, threshold, condition_type) ==
  IF condition_type = "above" THEN v > threshold ELSE v < threshold

\* sum(1 for v in values if v > threshold) / sum(1 for v in values if v < threshold)
RECURSIVE ExceedingCount(_, _, _)
ExceedingCount(values, threshold, condition_type) ==
  IF Len(values) = 0 THEN 0
  ELSE (IF Satisfies(Head(values), threshold, condition_type) THEN 1 ELSE 0)
       + ExceedingCount(Tail(values), threshold, condition_type)

\* None, or the probability in thousandths
calculate_probability(filtered_data, threshold, condition_type) ==
  IF Len(filtered_data) = 0 THEN None
  ELSE LET values == ValidValues(filtered_data)
       IN IF Len(values) = 0 THEN None
          ELSE RoundHalfEven(1000 * ExceedingCount(values, threshold, condition_type),
                             Len(values))

RECURSIVE SumSeq(_)
SumSeq(s) == IF Len(s) = 0 THEN 0 ELSE Head(s) + SumSeq(Tail(s))

RECURSIVE MaxSeq(_)
MaxSeq(s) ==
  IF Len(s) = 1 THEN s[1]
  ELSE LET m == MaxSeq(Tail(s)) IN IF Head(s) > m THEN Head(s) ELSE m

RECURSIVE MinSeq(_)
MinSeq(s) ==
  IF Len(s) = 1 THEN s[1]
  ELSE LET m == MinSeq(Tail(s)) IN IF Head(s) < m THEN Head(s) ELSE m

NoStats == [none |-> TRUE]

\* None, or max / min / average in hundredths and the number of valid values
calculate_extreme_statistics(filtered_data) ==
  LET values == ValidValues(filtered_data)
  IN IF Len(values) = 0 THEN NoStats
     ELSE [none |-> FALSE,
           max |-> 100 * MaxSeq(values),
           min |-> 100 * MinSeq(values),
           average |-> RoundHalfEven(100 * SumSeq(values), Len(values)),
           data_points |-> Len(values)]

RECURSIVE Insert(_, _)
Insert(x, sorted) ==
  IF Len(sorted) = 0 THEN <<x>>
  ELSE IF x <= Head(sorted) THEN <<x>> \o sorted
  ELSE <<Head(sorted)>> \o Insert(x, Tail(sorted))

RECURSIVE Sorted(_)
Sorted(s) == IF Len(s) = 0 THEN << >> ELSE Insert(Head(s), Sorted(Tail(s)))

\* numpy's linear-interpolation percentile q = num / den of the sorted values,
\* in units of 1 / den
Percentile(sorted, num, den) ==
  LET pos == (Len(sorted) - 1) * num
      lo == pos \div den
      fr == pos % den
      a == sorted[lo + 1]
      b == IF fr = 0 THEN a ELSE sorted[lo + 2]
  IN den * a + fr * (b - a)

\* None, or mean / median / p75 / p95 in hundredths and the size of the list
summarize_values(values) ==
  IF Len(values) = 0 THEN NoStats
  ELSE LET arr == Sorted(values)
       IN [none |-> FALSE,
           mean |-> RoundHalfEven(100 * SumSeq(values), Len(values)),
           median |-> 50 * Percentile(arr, 1, 2),
           p75 |-> 25 * Percentile(arr, 3, 4),
           p95 |-> 5 * Percentile(arr, 19, 20),
           count |-> Len(values)]

\* np.histogram(values, bins): equal-width bins over [min, max], widened by
\* 0.5 on each side when min = max; the last bin is closed on the right.
\* The values are integers counting 1 / unit, so that 0.5 is unit / 2.
\* Edges are kept in units of 1 / (2 * bins * unit).
HistLo2(values, unit) ==
  IF MinSeq(values) = MaxSeq(values) THEN 2 * MinSeq(values) - unit ELSE 2 * MinSeq(values)

HistHi2(values, unit) ==
  IF MinSeq(values) = MaxSeq(values) THEN 2 * MaxSeq(values) + unit ELSE 2 * MaxSeq(values)

HistEdge(values, bins, i, unit) ==
  HistLo2(values, unit) * bins + i * (HistHi2(values, unit) - HistLo2(values, unit))

HistBinOf(values, bins, v, unit) ==
  IF 2 * v * bins >= HistEdge(values, bins, bins, unit) THEN bins - 1
  ELSE ((2 * v - HistLo2(values, unit)) * bins)
         \div (HistHi2(values, unit) - HistLo2(values, unit))

RECURSIVE CountInBin(_, _, _, _, _)
CountInBin(rest, values, bins, i, unit) ==
  IF Len(rest) = 0 THEN 0
  ELSE (IF HistBinOf(values, bins, Head(rest), unit) = i THEN 1 ELSE 0)
       + CountInBin(Tail(rest), values, bins, i, unit)

\* bins: the edges in thousandths (round(., 3)); counts: one per bin
make_histogram(values, bins, unit) ==
  IF Len(values) = 0 THEN [bins |-> << >>, counts |-> << >>]
  ELSE [bins |-> [j \in 1..(bins + 1) |->
                    RoundHalfEven(1000 * HistEdge(values, bins, j - 1, unit), 2 * bins * unit)],
        counts |-> [j \in 1..bins |-> CountInBin(values, values, bins, j - 1, unit)]]

\* yearly[y] = yearly.get(y, 0) + 1 over the valid entries that satisfy the
\* condition and whose first four characters are a number
TrendCounts(param_data, threshold, condition_type, y) ==
  Cardinality({ j \in 1..Len(param_data) :
    /\ IsValid(param_data[j].v)
    /\ int(Slice(param_data[j].d, 0, 4)).ok
    /\ int(Slice(param_data[j].d, 0, 4)).val = y
    /\ Satisfies(param_data[j].v, threshold, condition_type) })

TrendYearSetOfValid(param_data, threshold, condition_type) ==
  { int(Slice(param_data[j].d, 0, 4)).val : j \in
      { k \in 1..Len(param_data) :
          IsValid(param_data[k].v) /\ int(Slice(param_data[k].d, 0, 4)).ok } }

TrendYearSet(param_data, threshold, condition_type) ==
  { int(Slice(param_data[j].d, 0, 4)).val : j \in
      { k \in 1..Len(param_data) :
          /\ IsValid(param_data[k].v)
          /\ int(Slice(param_data[k].d, 0, 4)).ok
          /\ Satisfies(param_data[k].v, threshold, condition_type) } }

RECURSIVE SortedSet(_)
SortedSet(S) ==
  IF S = {} THEN << >>
  ELSE LET m == CHOOSE x \in S : \A z \in S : x <= z
       IN <<m>> \o SortedSet(S \ {m})

RECURSIVE SumOver(_, _, _)
SumOver(years, cnt, kind) ==
  IF Len(years) = 0 THEN 0
  ELSE (CASE kind = "x" -> Head(years)
          [] kind = "y" -> cnt[1]
          [] kind = "xx" -> Head(years) * Head(years)
          [] kind = "xy" -> Head(years) * cnt[1])
       + SumOver(Tail(years), Tail(cnt), kind)

\* np.polyfit(years, counts, 1)[0] as the exact fraction num / den, den > 0.
\* With one year the system is rank deficient and the minimum-norm solution
\* of the column-scaled system is returned: slope = count / (2 * year).
SlopeNum(years, cnt) ==
  IF Len(years) = 1 THEN cnt[1]
  ELSE Len(years) * SumOver(years, cnt, "xy") - SumOver(years, cnt, "x") * SumOver(years, cnt, "y")

SlopeDen(years, cnt) ==
  IF Len(years) = 1 THEN 2 * years[1]
  ELSE Len(years) * SumOver(years, cnt, "xx") - SumOver(years, cnt, "x") * SumOver(years, cnt, "x")

\* The sign tests on the floating-point slope: when the exact slope is zero
\* the computed one is zero up to rounding noise of either sign.
TrendLabels(num) ==
  IF num > 0 THEN {"increasing"}
  ELSE IF num < 0 THEN {"decreasing"}
  ELSE {"increasing", "decreasing", "flat"}

\* The results analyze_trend_yearly_extremes can return: yearly_counts as
\* the ascending list of [year, count], slope in ten-thousandths (round(., 4))
analyze_trend_yearly_extremes(param_data, threshold, condition_type) ==
  LET years == SortedSet(TrendYearSet(param_data, threshold, condition_type))
      cnt == [j \in 1..Len(years) |->
                TrendCounts(param_data, threshold, condition_type, years[j])]
  IN IF Len(years) = 0
     THEN { [yearly_counts |-> << >>, slope |-> 0, trend |-> "flat"] }
     ELSE { [yearly_counts |-> [j \in 1..Len(years) |-> [year |-> years[j], count |-> cnt[j]]],
             slope |-> RoundHalfEven(10000 * SlopeNum(years, cnt), SlopeDen(years, cnt)),
             trend |-> t] : t \in TrendLabels(SlopeNum(years, cnt)) }

----------------------------------------------------------------------------
(* utils/calculations.py: polygon sampling                                 *)
(* A coordinate is the pair <<lat, lon>> in units of 1e-7 degree.          *)

UnitsPerDegree == 10000000

\* Coordinates are whole numbers of a unit; `pico` is the number of 1e-12
\* degree in one unit.  The endpoints work in units of 1e-7 degree.
PicoPerUnit == 100000

Lat(c) == c[1]
Lon(c) == c[2]

\* One edge of the ray casting loop.  With x, y the point and (x1, y1),
\* (x2, y2) the edge, the test is
\*   ((y1 > y) != (y2 > y)) and (x < (x2 - x1) * (y - y1) / (y2 - y1 + 1e-12) + x1)
\* With eps = 1/pico unit the divisor is (dy * pico + 1) / pico, so that
\*   x < xint  iff  pico * k + (x - x1) < 0   when dy * pico + 1 > 0
\*   x < xint  iff  pico * k + (x - x1) > 0   when dy * pico + 1 < 0
\* for k = (x - x1) * dy - (x2 - x1) * (y - y1).  The comparisons are
\* written with \div to stay within machine integers.  The divisor is zero
\* only when dy is exactly -1e-12 (ZeroDivisionError); the inputs keep off it.
EdgeCrossed(lat, lon, a, b, pico) ==
  LET x == lon
      y == lat
      x1 == Lon(a)
      y1 == Lat(a)
      x2 == Lon(b)
      y2 == Lat(b)
      dy == y2 - y1
      k == (x - x1) * dy - (x2 - x1) * (y - y1)
  IN /\ (y1 > y) # (y2 > y)
     /\ IF dy > 0 THEN k < 0 - ((x - x1) \div pico)
        ELSE k > (x1 - x) \div pico

RECURSIVE CrossingsFrom(_, _, _, _, _)
CrossingsFrom(lat, lon, polygon, i, pico) ==
  IF i > Len(polygon) THEN 0
  ELSE (IF EdgeCrossed(lat, lon, polygon[i], polygon[(i % Len(polygon)) + 1], pico) THEN 1 ELSE 0)
       + CrossingsFrom(lat, lon, polygon, i + 1, pico)

\* inside is toggled once per crossed edge
_point_in_polygon(lat, lon, polygon, pico) == CrossingsFrom(lat, lon, polygon, 1, pico) % 2 = 1

RECURSIVE MinOf(_)
MinOf(s) == IF Len(s) = 1 THEN s[1] ELSE LET m == MinOf(Tail(s)) IN IF Head(s) < m THEN Head(s) ELSE m

RECURSIVE MaxOf(_)
MaxOf(s) == IF Len(s) = 1 THEN s[1] ELSE LET m == MaxOf(Tail(s)) IN IF Head(s) > m THEN Head(s) ELSE m

Lats(polygon) == [j \in 1..Len(polygon) |-> Lat(polygon[j])]
Lons(polygon) == [j \in 1..Len(polygon) |-> Lon(polygon[j])]

\* 1e-6 degree, the grain of round(., 6)
Micro(pico) == 1000000 \div pico

\* round(x, 6); a whole number of units no finer than 1e-6 degree is kept
Round6(x, pico) ==
  IF pico >= 1000000 THEN x ELSE RoundHalfEven(x, Micro(pico)) * Micro(pico)

\* round(min / step) * step
GridOrigin(min, step) == RoundHalfEven(min, step) * step

\* v <= max + 1e-9, the loops' condition (1e-9 degree is 1000 / pico unit)
WithinLoopBound(v, max, pico) == v - max <= 1000 \div pico

\* while lon <= max_lon + 1e-9: ...; lon = round(lon + step, 6)
RECURSIVE LonLoop(_, _, _, _, _)
LonLoop(lat, lon, polygon, step, pico) ==
  IF ~WithinLoopBound(lon, MaxOf(Lons(polygon)), pico) THEN << >>
  ELSE (IF _point_in_polygon(lat, lon, polygon, pico) THEN << <<lat, lon>> >> ELSE << >>)
       \o LonLoop(lat, Round6(lon + step, pico), polygon, step, pico)

\* while lat <= max_lat + 1e-9: ...; lat = round(lat + step, 6)
RECURSIVE LatLoop(_, _, _, _)
LatLoop(lat, polygon, step, pico) ==
  IF ~WithinLoopBound(lat, MaxOf(Lats(polygon)), pico) THEN << >>
  ELSE LonLoop(lat, GridOrigin(MinOf(Lons(polygon)), step), polygon, step, pico)
       \o LatLoop(Round6(lat + step, pico), polygon, step, pico)

sample_polygon_to_grid(polygon, step, pico) ==
  LatLoop(GridOrigin(MinOf(Lats(polygon)), step), polygon, step, pico)

----------------------------------------------------------------------------
(* Unit level: one function of utils/calculations.py applied to one input *)

\* Date keys of the unit-level inputs, in ascending order
K_20190301 == <<2, 0, 1, 9, 0, 3, 0, 1>>   \* day 60 of 2019
K_20200229 == <<2, 0, 2, 0, 0, 2, 2, 9>>   \* day 60 of 2020
K_20200230 == <<2, 0, 2, 0, 0, 2, 3, 0>>   \* digits, but no calendar date
K_20200301 == <<2, 0, 2, 0, 0, 3, 0, 1>>   \* day 61 of 2020
K_2020X301 == <<2, 0, 2, 0, X, 3, 0, 1>>   \* a letter in the month
K_20201301 == <<2, 0, 2, 0, 1, 3, 0, 1>>   \* month 13
K_20211231 == <<2, 0, 2, 1, 1, 2, 3, 1>>   \* day 365 of 2021
K_X0200301 == <<X, 0, 2, 0, 0, 3, 0, 1>>   \* a letter in the year
K_20180715 == <<2, 0, 1, 8, 0, 7, 1, 5>>
K_20190716 == <<2, 0, 1, 9, 0, 7, 1, 6>>
K_20200717 == <<2, 0, 2, 0, 0, 7, 1, 7>>

FilterKeys ==
  <<K_20190301, K_20200229, K_20200230, K_20200301,
    K_2020X301, K_20201301, K_20211231, K_X0200301>>
FilterVals == {MISSING, 7}

CalcKeys == <<K_20190301, K_20200229, K_20200301, K_20211231, K_X0200301>>
CalcVals == {None, MISSING, 4, 5, 40, 41}

Months == 1..12
Seasons == {NoSeason, "djf", "mam", "jja", "son"}
Doys == {None, 60, 61, 365, 366}
StartYears == {None, 0, 2020, 2021}
EndYears == {None, 0, 2019, 2020}
Thresholds == {5, 40}
Directions == {"above", "below"}

MkSeries(keys, S, f) ==
  LET ix == SelectSeq([j \in 1..Len(keys) |-> j], LAMBDA j : j \in S)
  IN [j \in 1..Len(ix) |-> [d |-> keys[ix[j]], v |-> f[ix[j]]]]

\* Every series of at most maxlen entries with keys of `keys` (ascending)
SeriesOver(keys, vals, maxlen) ==
  UNION { { MkSeries(keys, S, f) : f \in [S -> vals] } :
          S \in { T \in SUBSET (1..Len(keys)) : Cardinality(T) <= maxlen } }

NoCall == [fn |-> "none", a |-> None, b |-> None, s |-> ""]
NoOut == None
NoLoop == [at |-> "idle"]

ApiIdle ==
  /\ pc = "idle"
  /\ req = [endpoint |-> "none"]
  /\ points = << >>
  /\ fetched = << >>
  /\ data = EmptySeries
  /\ probs = << >>
  /\ counts = << >>
  /\ agg_vals = << >>
  /\ resp = [status |-> 0]

InitFilter ==
  /\ series \in SeriesOver(FilterKeys, FilterVals, MaxSeriesLen)
  /\ call = NoCall
  /\ out = NoOut
  /\ loop = NoLoop
  /\ ApiIdle

CallFilterByMonth ==
  /\ call.fn = "none"
  /\ \E month \in Months :
       /\ call' = [fn |-> "filter_data_by_month", a |-> month, b |-> None, s |-> ""]
       /\ out' = filter_data_by_month(series, month)
  /\ UNCHANGED <<series, loop, apiVars>>

CallFilterByYearRange ==
  /\ call.fn = "none"
  /\ \E start_year \in StartYears, end_year \in EndYears :
       /\ call' = [fn |-> "filter_by_year_range", a |-> start_year, b |-> end_year, s |-> ""]
       /\ out' = filter_by_year_range(series, start_year, end_year)
  /\ UNCHANGED <<series, loop, apiVars>>

CallFilterBySeason ==
  /\ call.fn = "none"
  /\ \E season \in Seasons :
       /\ call' = [fn |-> "filter_by_season", a |-> None, b |-> None, s |-> season]
       /\ out' = filter_by_season(series, season)
  /\ UNCHANGED <<series, loop, apiVars>>

CallFilterByDoy ==
  /\ call.fn = "none"
  /\ \E doy \in Doys :
       /\ call' = [fn |-> "filter_by_doy", a |-> doy, b |-> None, s |-> ""]
       /\ out' = filter_by_doy(series, doy)
  /\ UNCHANGED <<series, loop, apiVars>>

NextFilter ==
  \/ CallFilterByMonth
  \/ CallFilterByYearRange
  \/ CallFilterBySeason
  \/ CallFilterByDoy

SpecFilter == InitFilter /\ [][NextFilter]_vars

InitCalc ==
  /\ series \in SeriesOver(CalcKeys, CalcVals, MaxSeriesLen)
  /\ call = NoCall
  /\ out = NoOut
  /\ loop = NoLoop
  /\ ApiIdle

CallCalculateProbability ==
  /\ call.fn = "none"
  /\ \E threshold \in Thresholds, condition_type \in Directions :
       /\ call' = [fn |-> "calculate_probability", a |-> threshold, b |-> None,
                   s |-> condition_type]
       /\ out' = calculate_probability(series, threshold, condition_type)
  /\ UNCHANGED <<series, loop, apiVars>>

CallCalculateExtremeStatistics ==
  /\ call.fn = "none"
  /\ call' = [fn |-> "calculate_extreme_statistics", a |-> None, b |-> None, s |-> ""]
  /\ out' = calculate_extreme_statistics(series)
  /\ UNCHANGED <<series, loop, apiVars>>

CallSummarizeValues ==
  /\ call.fn = "none"
  /\ call' = [fn |-> "summarize_values", a |-> None, b |-> None, s |-> ""]
  /\ out' = summarize_values(ValidValues(series))
  /\ UNCHANGED <<series, loop, apiVars>>

NextCalc ==
  \/ CallCalculateProbability
  \/ CallCalculateExtremeStatistics
  \/ CallSummarizeValues

SpecCalc == InitCalc /\ [][NextCalc]_vars

\* make_histogram on its own: the values are hundredths (0.0, 0.01, 5.0,
\* 10.0), the bin counts those of the examples, the smallest and the default
\* of HistogramRequest, and one in between
HistUnit == 100
HistKeys == <<K_20190301, K_20200229, K_20200301, K_20211231>>
HistVals == {0, 1, 500, 1000}
HistBins == {2, 4, 5, 24}

InitHist ==
  /\ series \in SeriesOver(HistKeys, HistVals, MaxSeriesLen)
  /\ call = NoCall
  /\ out = NoOut
  /\ loop = NoLoop
  /\ ApiIdle

CallMakeHistogram ==
  /\ call.fn = "none"
  /\ \E bins \in HistBins :
       /\ call' = [fn |-> "make_histogram", a |-> bins, b |-> None, s |-> ""]
       /\ out' = make_histogram(ValidValues(series), bins, HistUnit)
  /\ UNCHANGED <<series, loop, apiVars>>

NextHist == CallMakeHistogram

SpecHist == InitHist /\ [][NextHist]_vars

\* analyze_trend_yearly_extremes on its own: one key in 2018, two in 2019,
\* three in 2020 and one without a year
MaxTrendLen == 6
TrendKeys ==
  <<K_20180715, K_20190301, K_20190716, K_20200229, K_20200301, K_20200717, K_X0200301>>
TrendVals == {MISSING, 4, 41}
TrendThresholds == {5}

InitTrend ==
  /\ series \in SeriesOver(TrendKeys, TrendVals, MaxTrendLen)
  /\ call = NoCall
  /\ out = NoOut
  /\ loop = NoLoop
  /\ ApiIdle

CallAnalyzeTrend ==
  /\ call.fn = "none"
  /\ \E threshold \in TrendThresholds, condition_type \in Directions :
       /\ call' = [fn |-> "analyze_trend_yearly_extremes", a |-> threshold, b |-> None,
                   s |-> condition_type]
       /\ out' \in analyze_trend_yearly_extremes(series, threshold, condition_type)
  /\ UNCHANGED <<series, loop, apiVars>>

NextTrend == CallAnalyzeTrend

SpecTrend == InitTrend /\ [][NextTrend]_vars

\* sample_polygon_to_grid on its own, at two scales.  In units of 1e-3
\* degree: the square (0,0),(0,4),(4,4),(4,0), vertices off the grid, and
\* steps of 2 and 3 degrees.  In units of 1e-12 degree, where the 1e-12 of
\* the ray casting and the 1e-9 of the loops are felt: triangles of a few
\* nanodegrees with a corner a picodegree short of the grid line through
\* (0, 0), or with an edge that passes a picodegree east of (0, 0).
MaxVertices == 4
MilliScale ==
  [pico |-> 1000000000,
   vertices |-> { <<0, 0>>, <<0, 4000>>, <<4000, 4000>>, <<4000, 0>>,
                  <<1000, 1000>>, <<1000, 7000>>, <<7000, 1000>> },
   steps |-> {2000, 3000}]
PicoScale ==
  [pico |-> 1,
   vertices |-> { <<1000, -2001>>, <<0, -1>>, <<1000, -1>>, <<0, -2001>>,
                  <<-2, -3000>>, <<2, 3002>>, <<2, -3000>> },
   steps |-> {1000000}]
GridScales == {MilliScale, PicoScale}

\* polygons of 3..n pairwise distinct vertices
PolygonsOver(vertices, n) ==
  { p \in UNION { [1..m -> vertices] : m \in 3..n } :
      \A i \in 1..Len(p), j \in 1..Len(p) : i < j => p[i] # p[j] }

InitGrid ==
  /\ series \in UNION { PolygonsOver(g.vertices, MaxVertices) : g \in GridScales }
  /\ call = NoCall
  /\ out = NoOut
  /\ loop = NoLoop
  /\ ApiIdle

CallSamplePolygonToGrid ==
  /\ call.fn = "none"
  /\ \E g \in GridScales :
       /\ series \in PolygonsOver(g.vertices, MaxVertices)
       /\ \E step \in g.steps :
            /\ call' = [fn |-> "sample_polygon_to_grid", a |-> step, b |-> g.pico, s |-> ""]
            /\ out' = sample_polygon_to_grid(series, step, g.pico)
  /\ UNCHANGED <<series, loop, apiVars>>

NextGrid == CallSamplePolygonToGrid

SpecGrid == InitGrid /\ [][NextGrid]_vars

\* sample_polygon_to_grid iteration by iteration, in units of 1e-7 degree:
\* triangles of a few microdegrees, and steps of 1e-6 and 2e-6 degree
\* (whole multiples of the grain of round(., 6)), 1.2e-6 and 4e-7 degree.
\* `tested` lists the candidates handed to _point_in_polygon so far; the
\* loops are followed for at most MaxCandidates candidates.
MaxCandidates == 16
LoopVertices == { <<0, 0>>, <<0, 30>>, <<30, 0>>, <<30, 30>>, <<10, 20>> }
LoopSteps == {4, 10, 12, 20}

InitLoop ==
  /\ series \in PolygonsOver(LoopVertices, 3)
  /\ call = NoCall
  /\ out = NoOut
  /\ loop = NoLoop
  /\ ApiIdle

\* lines 187-192: the bounding box, points = [] and the first latitude
StartSampling ==
  /\ loop.at = "idle"
  /\ \E step \in LoopSteps :
       /\ call' = [fn |-> "sample_polygon_to_grid", a |-> step, b |-> PicoPerUnit, s |-> ""]
       /\ loop' = [at |-> "lat", lat |-> GridOrigin(MinOf(Lats(series)), step), lon |-> None,
                   points |-> << >>, tested |-> << >>]
  /\ UNCHANGED <<series, out, apiVars>>

\* `while lat <= max_lat + 1e-9` holds: lon = round(min_lon / step) * step
LatLoopEnter ==
  /\ loop.at = "lat"
  /\ WithinLoopBound(loop.lat, MaxOf(Lats(series)), call.b)
  /\ loop' = [loop EXCEPT !.at = "lon", !.lon = GridOrigin(MinOf(Lons(series)), call.a)]
  /\ UNCHANGED <<series, call, out, apiVars>>

\* `while lat <= max_lat + 1e-9` fails: return points
LatLoopReturn ==
  /\ loop.at = "lat"
  /\ ~WithinLoopBound(loop.lat, MaxOf(Lats(series)), call.b)
  /\ loop' = [loop EXCEPT !.at = "returned"]
  /\ out' = loop.points
  /\ UNCHANGED <<series, call, apiVars>>

\* one pass of the body of `while lon <= max_lon + 1e-9`
LonLoopBody ==
  /\ loop.at = "lon"
  /\ WithinLoopBound(loop.lon, MaxOf(Lons(series)), call.b)
  /\ Len(loop.tested) < MaxCandidates
  /\ loop' = [loop EXCEPT
                !.tested = Append(@, <<loop.lat, loop.lon>>),
                !.points = IF _point_in_polygon(loop.lat, loop.lon, series, call.b)
                           THEN Append(@, <<loop.lat, loop.lon>>) ELSE @,
                !.lon = Round6(loop.lon + call.a, call.b)]
  /\ UNCHANGED <<series, call, out, apiVars>>

\* `while lon <= max_lon + 1e-9` fails: lat = round(lat + step, 6)
LonLoopExit ==
  /\ loop.at = "lon"
  /\ ~WithinLoopBound(loop.lon, MaxOf(Lons(series)), call.b)
  /\ loop' = [loop EXCEPT !.at = "lat", !.lat = Round6(loop.lat + call.a, call.b)]
  /\ UNCHANGED <<series, call, out, apiVars>>

NextLoop ==
  \/ StartSampling
  \/ LatLoopEnter
  \/ LatLoopReturn
  \/ LonLoopBody
  \/ LonLoopExit

SpecLoop == InitLoop /\ [][NextLoop]_vars

----------------------------------------------------------------------------
(* services/thresholds.py, models.py *)

EXTREME_WEATHER_THRESHOLDS ==
  [heatwave      |-> [parameter |-> "T2M_MAX", default_threshold |-> 40, condition |-> "above"],
   hot_day       |-> [parameter |-> "T2M_MAX", default_threshold |-> 35, condition |-> "above"],
   warm_day      |-> [parameter |-> "T2M_MAX", default_threshold |-> 30, condition |-> "above"],
   cold_wave     |-> [parameter |-> "T2M_MIN", default_threshold |-> 5, condition |-> "below"],
   cold_day      |-> [parameter |-> "T2M_MIN", default_threshold |-> 10, condition |-> "below"],
   heavy_rain    |-> [parameter |-> "PRECTOTCORR", default_threshold |-> 50, condition |-> "above"],
   high_wind     |-> [parameter |-> "WS10M", default_threshold |-> 15, condition |-> "above"],
   overcast      |-> [parameter |-> "CLOUD_AMT", default_threshold |-> 80, condition |-> "above"],
   high_humidity |-> [parameter |-> "RH2M", default_threshold |-> 80, condition |-> "above"]]

\* RegionRequest.condition_type: Literal[...]
RegionConditionTypes ==
  {"heatwave", "cold_wave", "heavy_rain", "high_wind", "heavy_snow", "high_cloud_cover"}

\* RegionRequest.polygon: Field(min_length=3)
MinPolygon == 3

----------------------------------------------------------------------------
(* Endpoint level: the requests and the provider's answers *)

MaxPointLen == 2      \* entries of a series fetched for a single-point request
MaxRegionLen == 2     \* entries of a series fetched for one region coordinate
MaxPoints == 1        \* explicit points of a region request

\* condition_type values sent by callers: two configured conditions, one
\* RegionRequest literal without configuration, one unknown name
ConditionTypeChoices == {"heatwave", "cold_wave", "heavy_snow", "tornado"}
CustomThresholdChoices == {None, 0, 10}
BinsChoices == {4, 5}
ParameterChoices == {"T2M_MAX"}

TimeFilter(month, season, doy, start_year, end_year) ==
  [month |-> month, season |-> season, doy |-> doy,
   start_year |-> start_year, end_year |-> end_year]

\* Every combination of the selectors of a single-point or histogram request
PointTimeFilters ==
  { TimeFilter(m, s, dy, sy, ey) :
      m \in {None, 3}, s \in {NoSeason, "djf"}, dy \in {None, 60},
      sy \in {None, 2020}, ey \in {None, 2019} }

\* The condition_type and custom_threshold of region requests
RegionConditionChoices ==
  { <<"heatwave", None>>, <<"heatwave", 10>>, <<"cold_wave", 0>>, <<"cold_wave", 10>>,
    <<"heavy_snow", None>>, <<"tornado", 10>> }

RegionTimeFilters ==
  { TimeFilter(None, NoSeason, None, None, None),
    TimeFilter(3, NoSeason, None, None, 2019),
    TimeFilter(3, "djf", None, 2020, None),
    TimeFilter(2, "mam", 60, None, None) }

PointKeys == <<K_20190301, K_20200229, K_20200301, K_2020X301>>
PointVals == {None, MISSING, 4, 41}
RegionKeys == <<K_20190301, K_20200229>>
RegionVals == {MISSING, 4, 41}

\* What get_nasa_power_data returned and what the handler found in it:
\* "failed" (None), "no_parameter" (KeyError on the lookup), or the series p
Failed == [kind |-> "failed", p |-> EmptySeries]
NoParameter == [kind |-> "no_parameter", p |-> EmptySeries]
Got(p) == [kind |-> "ok", p |-> p]

PointOutcomes ==
  {Failed, NoParameter} \cup { Got(p) : p \in SeriesOver(PointKeys, PointVals, MaxPointLen) }

RegionOutcomes ==
  {Failed, NoParameter} \cup { Got(p) : p \in SeriesOver(RegionKeys, RegionVals, MaxRegionLen) }

\* HTTPException(status_code, detail)
HTTPException(status_code, detail) == [status |-> status_code, detail |-> detail]

\* An exception no handler catches: the framework answers 500
Unhandled(exc) == [status |-> 500, detail |-> "Internal Server Error", exception |-> exc]

\* Request validation failed (pydantic): the handler does not run
Unprocessable == [status |-> 422, detail |-> "validation error"]

\* Python's `a or b` for an Optional[float] a
Or(a, b) == IF Truthy(a) THEN a ELSE b

----------------------------------------------------------------------------
(* routers/probability.py: GET /extreme-weather/probability *)

\* Mutant of PointFilter: every selector present is applied
PointFilterAll(p, tf) ==
  filter_data_by_month(
    filter_by_season(
      filter_by_doy(filter_by_year_range(p, tf.start_year, tf.end_year), tf.doy),
      tf.season),
    tf.month)

PointFilter(p, tf) ==
  LET d1 == filter_by_year_range(p, tf.start_year, tf.end_year)
  IN IF Truthy(tf.doy) THEN filter_by_doy(d1, tf.doy)
     ELSE IF tf.season # NoSeason THEN filter_by_season(d1, tf.season)
     ELSE IF Truthy(tf.month) THEN filter_data_by_month(d1, tf.month)
     ELSE d1

PointSummary(prob, stats) ==
  IF prob # None /\ ~stats.none
  THEN (IF prob >= 600 THEN "High likelihood; plan accordingly"
        ELSE IF prob >= 300 THEN "Moderate likelihood; monitor conditions"
        ELSE "Low likelihood")
  ELSE "None"

\* "probability": prob if prob is not None else 0.0
PointProbabilityField(prob) == IF prob # None THEN prob ELSE 0

\* The responses the handler can give to request r when the provider
\* answers o (the trend label is the only choice)
PointResponses(r, o) ==
  IF r.condition_type \notin DOMAIN EXTREME_WEATHER_THRESHOLDS
  THEN { HTTPException(400, "Invalid condition_type") }
  ELSE IF o.kind = "failed" THEN { HTTPException(500, "NASA POWER fetch failed") }
  ELSE IF o.kind = "no_parameter" THEN { HTTPException(404, "Parameter not found") }
  ELSE
    LET cfg == EXTREME_WEATHER_THRESHOLDS[r.condition_type]
        default_threshold == Or(r.custom_threshold, cfg.default_threshold)
        d == PointFilter(o.p, r.time_filter)
        prob == calculate_probability(d, default_threshold, cfg.condition)
        stats == calculate_extreme_statistics(d)
        values == ValidValues(d)
    IN { [status |-> 200,
          time_filter |-> r.time_filter,
          condition_type |-> r.condition_type,
          parameter |-> cfg.parameter,
          condition |-> cfg.condition,
          threshold |-> default_threshold,
          probability |-> PointProbabilityField(prob),
          statistics |-> stats,
          distribution |-> summarize_values(values),
          trend |-> trend,
          summary |-> PointSummary(prob, stats)] :
         trend \in analyze_trend_yearly_extremes(d, default_threshold, cfg.condition) }

\* The fetch happens only after the condition type was accepted
PointFetched(r, o) ==
  IF r.condition_type \in DOMAIN EXTREME_WEATHER_THRESHOLDS THEN <<o>> ELSE << >>

PointData(r, o) ==
  IF r.condition_type \in DOMAIN EXTREME_WEATHER_THRESHOLDS /\ o.kind = "ok"
  THEN PointFilter(o.p, r.time_filter) ELSE EmptySeries

GetExtremeWeatherProbability ==
  /\ pc = "idle"
  /\ \E ct \in ConditionTypeChoices, custom \in CustomThresholdChoices,
        tf \in PointTimeFilters, o \in PointOutcomes :
       LET r == [endpoint |-> "probability", condition_type |-> ct,
                 custom_threshold |-> custom, time_filter |-> tf]
       IN /\ req' = r
          /\ fetched' = PointFetched(r, o)
          /\ data' = PointData(r, o)
          /\ resp' \in PointResponses(r, o)
  /\ pc' = "done"
  /\ UNCHANGED <<points, probs, counts, agg_vals, unitVars>>

----------------------------------------------------------------------------
(* routers/probability.py: GET /seasonal-heatmap *)

\* monthly_probabilities[month] = round(prob, 3) if prob is not None else 0
HeatmapCell(param_data, threshold, condition, month) ==
  LET prob == calculate_probability(filter_data_by_month(param_data, month), threshold, condition)
  IN IF prob # None THEN prob ELSE 0

\* sorted(monthly_probabilities.items(), key=lambda x: x[1]): stable
RECURSIVE InsertMonth(_, _, _)
InsertMonth(m, sorted, heat) ==
  IF Len(sorted) = 0 THEN <<m>>
  ELSE IF heat[m] < heat[Head(sorted)] THEN <<m>> \o sorted
  ELSE <<Head(sorted)>> \o InsertMonth(m, Tail(sorted), heat)

RECURSIVE SortedMonths(_, _)
SortedMonths(n, heat) ==
  IF n = 0 THEN << >> ELSE InsertMonth(n, SortedMonths(n - 1, heat), heat)

HeatmapResponse(ct, o) ==
  IF ct \notin DOMAIN EXTREME_WEATHER_THRESHOLDS THEN Unhandled("KeyError")
  ELSE IF o.kind = "failed" THEN HTTPException(500, "Failed to fetch NASA data")
  ELSE IF o.kind = "no_parameter" THEN Unhandled("KeyError")
  ELSE
    LET cfg == EXTREME_WEATHER_THRESHOLDS[ct]
        heat == [month \in 1..12 |->
                   HeatmapCell(o.p, cfg.default_threshold, cfg.condition, month)]
        sorted_months == SortedMonths(12, heat)
    IN [status |-> 200,
        condition_type |-> ct,
        heatmap_data |-> heat,
        best_months |-> SubSeq(sorted_months, 1, 3),
        worst_months |-> SubSeq(sorted_months, 10, 12)]

GetSeasonalHeatmap ==
  /\ pc = "idle"
  /\ \E ct \in ConditionTypeChoices, o \in PointOutcomes :
       /\ req' = [endpoint |-> "heatmap", condition_type |-> ct]
       /\ fetched' = PointFetched([condition_type |-> ct], o)
       /\ data' = IF ct \in DOMAIN EXTREME_WEATHER_THRESHOLDS THEN o.p ELSE EmptySeries
       /\ resp' = HeatmapResponse(ct, o)
  /\ pc' = "done"
  /\ UNCHANGED <<points, probs, counts, agg_vals, unitVars>>

----------------------------------------------------------------------------
(* routers/probability.py: POST /extreme-weather/histogram *)

HistogramFilter(p, tf) ==
  LET d1 == filter_by_year_range(p, tf.start_year, tf.end_year)
  IN IF Truthy(tf.doy) THEN filter_by_doy(d1, tf.doy)
     ELSE IF tf.season # NoSeason THEN filter_by_season(d1, tf.season)
     ELSE IF Truthy(tf.month) THEN filter_data_by_month(d1, tf.month)
     ELSE d1

HistogramResponse(r, o) ==
  IF o.kind = "failed" THEN HTTPException(500, "NASA POWER fetch failed")
  ELSE IF o.kind = "no_parameter" THEN HTTPException(404, "Parameter not found")
  ELSE
    LET values == ValidValues(HistogramFilter(o.p, r.time_filter))
    IN [status |-> 200,
        histogram |-> make_histogram(values, r.bins, 1),
        summary |-> summarize_values(values),
        metadata |-> [parameter |-> r.parameter, bins |-> r.bins]]

Histogram ==
  /\ pc = "idle"
  /\ \E parameter \in ParameterChoices, bins \in BinsChoices,
        tf \in PointTimeFilters, o \in PointOutcomes :
       LET r == [endpoint |-> "histogram", parameter |-> parameter,
                 bins |-> bins, time_filter |-> tf]
       IN /\ req' = r
          /\ fetched' = <<o>>
          /\ data' = IF o.kind = "ok" THEN HistogramFilter(o.p, tf) ELSE EmptySeries
          /\ resp' = HistogramResponse(r, o)
  /\ pc' = "done"
  /\ UNCHANGED <<points, probs, counts, agg_vals, unitVars>>

----------------------------------------------------------------------------
(* routers/probability.py: POST /extreme-weather/region-probability *)

\* Explicit points: (0, 0) and (0, 0.5)
CoordA == <<0, 0>>
CoordB == <<0, UnitsPerDegree \div 2>>

\* The explicit point lists of region requests: one list of every length up
\* to MaxPoints, its coordinates alternating between CoordA and CoordB
PointList(n) == [j \in 1..n |-> IF j % 2 = 1 THEN CoordA ELSE CoordB]

PointLists == { PointList(n) : n \in 0..MaxPoints }

\* Polygons of region requests: none; two vertices only; a triangle without
\* a grid node inside; a triangle around the grid node (0, 0)
NoPolygon == << >>
TwoVertices == << <<100, 100>>, <<100, 400>> >>
TriangleOffGrid == << <<100, 100>>, <<100, 400>>, <<400, 100>> >>
TriangleOnNode == << <<-300, -300>>, <<-300, 600>>, <<600, -300>> >>
PolygonChoices == {NoPolygon, TwoVertices, TriangleOffGrid, TriangleOnNode}

\* tuple(np.mean(np.array(poly), axis=0).tolist()); the vertex sums of the
\* polygons above are multiples of their number of vertices
Centroid(poly) ==
  <<SumSeq(Lats(poly)) \div Len(poly), SumSeq(Lons(poly)) \div Len(poly)>>

\* no fallback to the centroid
PolygonSamplesAsSampled(poly) ==
  sample_polygon_to_grid(poly, UnitsPerDegree \div 2, PicoPerUnit)

\* sample_polygon_to_grid(poly, step=0.5), or the centroid when it is empty
PolygonSamples(poly) ==
  LET sampled == sample_polygon_to_grid(poly, UnitsPerDegree \div 2, PicoPerUnit)
  IN IF Len(sampled) = 0 THEN <<Centroid(poly)>> ELSE sampled

\* The sampling list: the explicit points, then the polygon's
SamplingList(pts, poly) ==
  pts \o (IF Len(poly) > 0 THEN PolygonSamples(poly) ELSE << >>)

\* RegionRequest: condition_type is one of the literals, a polygon has at
\* least 3 coordinates
RegionRequestValid(r) ==
  /\ r.condition_type \in RegionConditionTypes
  /\ (Len(r.polygon) > 0 => Len(r.polygon) >= MinPolygon)

RegionFilter(p, tf) ==
  LET d1 == filter_by_year_range(p, tf.start_year, tf.end_year)
  IN IF Truthy(tf.doy) THEN filter_by_doy(d1, tf.doy)
     ELSE IF tf.season # NoSeason THEN filter_by_season(d1, tf.season)
     ELSE IF Truthy(tf.month) THEN filter_data_by_month(d1, tf.month)
     ELSE d1

RegionThreshold(r) ==
  Or(r.custom_threshold, EXTREME_WEATHER_THRESHOLDS[r.condition_type].default_threshold)

RegionCondition(r) == EXTREME_WEATHER_THRESHOLDS[r.condition_type].condition

\* Mutant of RegionProbs: a point without data enters as probability 0
RegionProbsZero(ps, pr) == IF pr # None THEN Append(ps, pr) ELSE Append(ps, 0)

\* if pr is not None: probs.append(pr)
RegionProbs(ps, pr) == IF pr # None THEN Append(ps, pr) ELSE ps

\* counts.append(len(vs))
RegionCounts(cs, vs) == Append(cs, Len(vs))

\* Mutant of RegionPool: only the last point's values are kept
RegionPoolLast(vals, vs) == vs

\* agg_vals.extend(vs)
RegionPool(vals, vs) == vals \o vs

RegionAcc(d, ps, cs, vals) == [data |-> d, probs |-> ps, counts |-> cs, agg_vals |-> vals]

\* The body of `for lat, lon in points` when the provider answers o
RegionStep(acc, o, r) ==
  IF o.kind # "ok" THEN acc
  ELSE LET d == RegionFilter(o.p, r.time_filter)
           pr == calculate_probability(d, RegionThreshold(r), RegionCondition(r))
           vs == ValidValues(d)
       IN RegionAcc(d, RegionProbs(acc.probs, pr), RegionCounts(acc.counts, vs),
                    RegionPool(acc.agg_vals, vs))

\* The whole loop over the answers os, from empty accumulators
RECURSIVE RegionLoop(_, _)
RegionLoop(os, r) ==
  IF Len(os) = 0 THEN RegionAcc(EmptySeries, << >>, << >>, << >>)
  ELSE RegionStep(RegionLoop(SubSeq(os, 1, Len(os) - 1), r), os[Len(os)], r)

\* round(float(np.mean(probs)), 3) in thousandths. The mean of the floats is
\* not the exact decimal, so at a decimal tie round() lands on either side.
RoundMean(total, n) ==
  LET q == total \div n
      r == total - q * n
  IN IF 2 * r < n THEN {q}
     ELSE IF 2 * r > n THEN {q + 1}
     ELSE {q, q + 1}

\* int(np.mean(counts)) if counts else 0
MeanPointDays(cs) == IF Len(cs) = 0 THEN 0 ELSE SumSeq(cs) \div Len(cs)

RegionAggregate(r, pts, ps, cs, vals, region_prob) ==
  [status |-> 200,
   region |-> [points_used |-> Len(ps), total_samples |-> Len(pts)],
   condition_type |-> r.condition_type,
   parameter |-> EXTREME_WEATHER_THRESHOLDS[r.condition_type].parameter,
   condition |-> RegionCondition(r),
   threshold |-> RegionThreshold(r),
   probability |-> region_prob,
   region_stats |-> [mean_point_days |-> MeanPointDays(cs),
                     value_summary |-> summarize_values(vals)]]

\* Mutant of RegionResponses: no `if not probs` check, probability 0 instead
RegionResponsesZero(r, pts, ps, cs, vals) ==
  IF Len(ps) = 0 THEN { RegionAggregate(r, pts, ps, cs, vals, 0) }
  ELSE { RegionAggregate(r, pts, ps, cs, vals, region_prob) :
         region_prob \in RoundMean(SumSeq(ps), Len(ps)) }

\* The 404 when no point gave a probability, else the aggregate
RegionResponses(r, pts, ps, cs, vals) ==
  IF Len(ps) = 0 THEN { HTTPException(404, "No valid samples inside region") }
  ELSE { RegionAggregate(r, pts, ps, cs, vals, region_prob) :
         region_prob \in RoundMean(SumSeq(ps), Len(ps)) }

\* Validation, configuration lookup and the sampling list
RegionBegin ==
  /\ pc = "idle"
  /\ \E cc \in RegionConditionChoices,
        tf \in RegionTimeFilters, pts \in PointLists, poly \in PolygonChoices :
       LET ct == cc[1]
           r == [endpoint |-> "region", condition_type |-> ct,
                 custom_threshold |-> cc[2], time_filter |-> tf,
                 points |-> pts, polygon |-> poly]
       IN /\ req' = r
          /\ IF ~RegionRequestValid(r)
             THEN pc' = "done" /\ resp' = Unprocessable /\ points' = << >>
             ELSE IF ct \notin DOMAIN EXTREME_WEATHER_THRESHOLDS
             THEN pc' = "done" /\ resp' = Unhandled("KeyError") /\ points' = << >>
             ELSE IF Len(SamplingList(pts, poly)) = 0
             THEN /\ pc' = "done"
                  /\ resp' = HTTPException(400, "Provide points or polygon")
                  /\ points' = << >>
             ELSE pc' = "fetch" /\ resp' = resp /\ points' = SamplingList(pts, poly)
  /\ UNCHANGED <<fetched, data, probs, counts, agg_vals, unitVars>>

\* One iteration of `for lat, lon in points`
RegionFetch ==
  /\ pc = "fetch"
  /\ Len(fetched) < Len(points)
  /\ \E o \in RegionOutcomes :
       LET acc == RegionStep(RegionAcc(data, probs, counts, agg_vals), o, req)
       IN /\ fetched' = Append(fetched, o)
          /\ data' = acc.data
          /\ probs' = acc.probs
          /\ counts' = acc.counts
          /\ agg_vals' = acc.agg_vals
  /\ UNCHANGED <<pc, req, points, resp, unitVars>>

\* the aggregate without waiting for the end of the loop
RegionMergeDuringLoop ==
  /\ pc = "fetch"
  /\ resp' \in RegionResponses(req, points, probs, counts, agg_vals)
  /\ pc' = "done"
  /\ UNCHANGED <<req, points, fetched, data, probs, counts, agg_vals, unitVars>>

\* After the loop: the 404 or the aggregate
RegionMerge ==
  /\ pc = "fetch"
  /\ Len(fetched) = Len(points)
  /\ resp' \in RegionResponses(req, points, probs, counts, agg_vals)
  /\ pc' = "done"
  /\ UNCHANGED <<req, points, fetched, data, probs, counts, agg_vals, unitVars>>

----------------------------------------------------------------------------
(* The service *)

Init ==
  /\ series = EmptySeries
  /\ call = NoCall
  /\ out = NoOut
  /\ loop = NoLoop
  /\ ApiIdle

Next ==
  \/ GetExtremeWeatherProbability
  \/ GetSeasonalHeatmap
  \/ Histogram
  \/ RegionBegin
  \/ RegionFetch
  \/ RegionMerge

Spec == Init /\ [][Next]_vars

----------------------------------------------------------------------------
(* Properties *)

IsCalendarDate(d) ==
  /\ Len(d) = 8
  /\ AllDigits(d)
  /\ LET y == DigitsValue(SubSeq(d, 1, 4))
         m == DigitsValue(SubSeq(d, 5, 6))
         dd == DigitsValue(SubSeq(d, 7, 8))
     IN y >= 1 /\ m \in 1..12 /\ dd >= 1 /\ dd <= DaysInMonth(y, m)

IsFilterCall ==
  call.fn \in {"filter_data_by_month", "filter_by_year_range",
               "filter_by_season", "filter_by_doy"}

\* s is a sub-mapping of t: every entry of s is an entry of t
SubMapping(s, t) == \A j \in 1..Len(s) : \E k \in 1..Len(t) : s[j] = t[k]

\* C10: each of the four calendar filters returns a
\* sub-mapping of its input in which every key is a YYYYMMDD calendar date.
C10_FiltersDropUnparseableKeys ==
  IsFilterCall =>
    /\ SubMapping(out, series)
    /\ \A j \in 1..Len(out) : IsCalendarDate(out[j].d)


ValidIdx(s) == { j \in 1..Len(s) : s[j].v # None /\ s[j].v # MISSING }

SatIdx(s, threshold, direction) ==
  { j \in ValidIdx(s) : IF direction = "above" THEN s[j].v > threshold
                        ELSE s[j].v < threshold }

Abs(x) == IF x < 0 THEN -x ELSE x

\* p (an integer) is n / d rounded to the nearest integer
IsRounded(p, n, d) == 2 * Abs(p * d - n) <= d

\* C2: with at least one valid value, calculate_probability returns the
\* fraction of the valid values strictly above (strictly below) the threshold,
\* rounded to 3 decimals and within [0,1]; None, -999 and values equal to the
\* threshold count on neither side.
C2_ProbabilityIsFractionOfValid ==
  (call.fn = "calculate_probability" /\ ValidIdx(series) # {}) =>
    /\ out # None
    /\ out \in 0..1000
    /\ IsRounded(out, 1000 * Cardinality(SatIdx(series, call.a, call.s)),
                 Cardinality(ValidIdx(series)))

C2_Witness ==
  /\ call.fn = "calculate_probability"
  /\ \E j \in 1..Len(series) : series[j].v = call.a
  /\ \E j \in 1..Len(series) : series[j].v \in {None, MISSING}
  /\ out = 500



Served(endpoint) == pc = "done" /\ req.endpoint = endpoint

\* C1: without any valid value the single-point response and every month of
\* the heatmap report an explicit no-data probability, never the number 0;
\* a reported 0 means valid values exist and none satisfies the condition.
C1_NoDataIsNeverZero ==
  /\ (Served("probability") /\ resp.status = 200) =>
       /\ ValidIdx(data) = {} => resp.probability = None
       /\ resp.probability = 0 => ValidIdx(data) # {}
  /\ (Served("heatmap") /\ resp.status = 200) =>
       \A month \in 1..12 :
         LET filtered == filter_data_by_month(data, month)
         IN /\ ValidIdx(filtered) = {} => resp.heatmap_data[month] = None
            /\ resp.heatmap_data[month] = 0 => ValidIdx(filtered) # {}

\* The coordinates that contribute a probability: fetched, parameter present,
\* at least one valid value after filtering
Contributes(o, r) ==
  o.kind = "ok" /\ ValidIdx(RegionFilter(o.p, r.time_filter)) # {}

Contributing == SelectSeq(fetched, LAMBDA o : Contributes(o, req))

\* C3: a coordinate whose fetch fails, whose parameter is missing or whose
\* probability is no-data changes no aggregate field except the attempted
\* total: probability, points_used, mean_point_days and value_summary are
\* those of the request over the remaining coordinates alone.
C3_ExcludedPointsLeaveNoTrace ==
  (Served("region") /\ resp.status = 200) =>
    LET alone == RegionLoop(Contributing, req)
    IN \E r2 \in RegionResponses(req, points, alone.probs, alone.counts, alone.agg_vals) :
         /\ resp.probability = r2.probability
         /\ resp.region.points_used = r2.region.points_used
         /\ resp.region_stats = r2.region_stats

RECURSIVE SumSet(_, _)
SumSet(S, f) ==
  IF S = {} THEN 0
  ELSE LET x == CHOOSE y \in S : TRUE IN f[x] + SumSet(S \ {x}, f)

ContributingIdx == { j \in 1..Len(fetched) : Contributes(fetched[j], req) }

\* Per-point probability (thousandths) of the j-th coordinate
PointProbability(j) ==
  calculate_probability(RegionFilter(fetched[j].p, req.time_filter),
                        RegionThreshold(req), RegionCondition(req))

\* C4: with at least one successful coordinate the region probability is
\* the equally weighted mean of the per-point probabilities of exactly the
\* successful coordinates, rounded to 3 decimals, and points_used is their
\* number.
C4_RegionProbabilityIsMeanOfPoints ==
  Served("region") =>
    LET successful == ContributingIdx
    IN successful # {} =>
         /\ resp.status = 200
         /\ resp.region.points_used = Cardinality(successful)
         /\ IsRounded(resp.probability,
                      SumSet(successful, [j \in successful |-> PointProbability(j)]),
                      Cardinality(successful))

C4_Witness ==
  /\ Served("region")
  /\ Cardinality(ContributingIdx) = 2
  /\ Len(fetched) = 2
  /\ PointProbability(1) = 500
  /\ PointProbability(2) = 1000
  /\ resp.probability = 750
  /\ resp.region.points_used = 2

ValidCount(j) == Cardinality(ValidIdx(RegionFilter(fetched[j].p, req.time_filter)))

ValidSum(j) ==
  LET d == RegionFilter(fetched[j].p, req.time_filter)
  IN SumSet(ValidIdx(d), [k \in ValidIdx(d) |-> d[k].v])

\* Number and sum of the valid values of the series d
ValidTotals(d) ==
  LET valid == ValidIdx(d)
  IN [count |-> Cardinality(valid), sum |-> SumSet(valid, [k \in valid |-> d[k].v])]

\* Number and sum of the valid values of the first n fetched coordinates
RECURSIVE PooledTotals(_)
PooledTotals(n) ==
  IF n = 0 THEN [count |-> 0, sum |-> 0]
  ELSE LET rest == PooledTotals(n - 1)
           own == IF fetched[n].kind = "ok"
                  THEN ValidTotals(RegionFilter(fetched[n].p, req.time_filter))
                  ELSE [count |-> 0, sum |-> 0]
       IN [count |-> rest.count + own.count, sum |-> rest.sum + own.sum]

\* C5: the region value summary is computed over the pooled valid values of
\* all successful points: its count is the sum of their valid-value counts
\* and its mean is the mean of all pooled values.
C5_SummaryOverPooledValues ==
  (Served("region") /\ resp.status = 200) =>
    LET pooled == PooledTotals(Len(fetched))
    IN /\ ~resp.region_stats.value_summary.none
       /\ resp.region_stats.value_summary.count = pooled.count
       /\ IsRounded(resp.region_stats.value_summary.mean, 100 * pooled.sum, pooled.count)

\* Two successful points with 1 and 2 valid values: the pooled mean 86 / 3
\* differs from the mean of the per-point means (4 + 41) / 2
C5_Witness ==
  /\ Served("region")
  /\ resp.status = 200
  /\ Len(fetched) = 2
  /\ ContributingIdx = {1, 2}
  /\ ValidCount(1) = 1 /\ ValidSum(1) = 4
  /\ ValidCount(2) = 2 /\ ValidSum(2) = 82
  /\ resp.region_stats.value_summary.count = 3
  /\ resp.region_stats.value_summary.mean = 2867

\* C6: when no sample coordinate yields a probability the region endpoint
\* ends in the "no data in region" error and returns no probability.
C6_NoSuccessfulPointIsAnError ==
  (Served("region") /\ Len(points) > 0 /\ ContributingIdx = {}) =>
    resp = HTTPException(404, "No valid samples inside region")

C6_Witness ==
  /\ Served("region")
  /\ Len(fetched) = 2
  /\ fetched[1].kind = "failed"
  /\ fetched[2].kind = "ok" /\ Len(fetched[2].p) > 0
  /\ ContributingIdx = {}
  /\ resp.status = 404

\* n answers, each the series without entries
AllEmpty(n) == [j \in 1..n |-> Got(EmptySeries)]

\* C7: "could not retrieve data" is reported differently from "retrieved,
\* nothing valid after filtering": the result of a region (single-point)
\* request whose every fetch failed differs from the result of the same
\* request when every fetch succeeds with zero valid values.
C7_FetchFailureDistinctFromNoData ==
  /\ (Served("region") /\ Len(points) > 0 /\ \A j \in 1..Len(fetched) : fetched[j] = Failed) =>
       LET nodata == RegionLoop(AllEmpty(Len(points)), req)
       IN resp \notin RegionResponses(req, points, nodata.probs, nodata.counts, nodata.agg_vals)
  /\ (Served("probability") /\ fetched = <<Failed>>) =>
       resp \notin PointResponses(req, Got(EmptySeries))

HasConditionType == req.endpoint \in {"probability", "heatmap", "region"}

\* C8: a condition_type without an entry in the threshold table is rejected
\* as an invalid request before any fetch, on every endpoint taking one.
C8_UnknownConditionRejected ==
  (pc = "done" /\ HasConditionType
     /\ req.condition_type \notin DOMAIN EXTREME_WEATHER_THRESHOLDS) =>
    /\ resp.status \in {400, 422}
    /\ fetched = << >>

\* The entry test of the highest-precedence calendar selector present
Selected(e, tf) ==
  IF tf.doy # None THEN DoyKeeps(e, tf.doy)
  ELSE IF tf.season # NoSeason THEN SeasonKeeps(e, SEASON_MONTHS[tf.season])
  ELSE IF tf.month # None THEN MonthKeeps(e, tf.month)
  ELSE TRUE

Expected(p, tf) ==
  SelectSeq(filter_by_year_range(p, tf.start_year, tf.end_year), LAMBDA e : Selected(e, tf))

\* tf with the selectors below the highest-precedence one removed
HighestOnly(tf) ==
  IF tf.doy # None THEN [tf EXCEPT !.season = NoSeason, !.month = None]
  ELSE IF tf.season # NoSeason THEN [tf EXCEPT !.month = None]
  ELSE tf

LastFetchedOk == Len(fetched) > 0 /\ fetched[Len(fetched)].kind = "ok"

\* C9: the single-point, region and histogram endpoints apply the year-range
\* filter and then exactly one calendar filter, day-of-year before season
\* before month; selectors of lower precedence have no effect.
C9_OneCalendarFilterByPrecedence ==
  (req.endpoint \in {"probability", "region", "histogram"} /\ LastFetchedOk) =>
    LET p == fetched[Len(fetched)].p
        tf == req.time_filter
    IN /\ data = Expected(p, tf)
       /\ req.endpoint = "probability" => data = PointFilter(p, HighestOnly(tf))
       /\ req.endpoint = "region" => data = RegionFilter(p, HighestOnly(tf))
       /\ req.endpoint = "histogram" => data = HistogramFilter(p, HighestOnly(tf))

C9_Witness ==
  /\ Served("probability")
  /\ req.time_filter = TimeFilter(3, "djf", 60, 2020, None)
  /\ LastFetchedOk
  /\ Len(fetched[1].p) = 2
  /\ Len(data) = 1
  /\ data[1].d = K_20200229

\* The year of a date key: its first four characters read as a number
HasYear(d) == Len(d) >= 4 /\ \A j \in 1..4 : d[j] \in 0..9

YearOf(d) == 1000 * d[1] + 100 * d[2] + 10 * d[3] + d[4]

\* C11: filter_by_year_range keeps exactly the entries whose year is at
\* least start_year when one is supplied and at most end_year when one is
\* supplied, whatever integers are supplied, and returns its input unchanged
\* only when both are omitted.
C11_YearRangeInclusiveForEveryBound ==
  call.fn = "filter_by_year_range" =>
    IF call.a = None /\ call.b = None THEN out = series
    ELSE out = SelectSeq(series, LAMBDA e :
                 /\ HasYear(e.d)
                 /\ (call.a # None => YearOf(e.d) >= call.a)
                 /\ (call.b # None => YearOf(e.d) <= call.b))

\* The months 1..12 whose filter_data_by_month result holds the entry e
MonthsHolding(e) ==
  { m \in 1..12 :
      \E k \in 1..Len(filter_data_by_month(series, m)) :
        filter_data_by_month(series, m)[k] = e }

HistValues == [j \in 1..Len(series) |-> series[j].v]

HistMin == CHOOSE v \in { HistValues[j] : j \in 1..Len(series) } :
             \A j \in 1..Len(series) : v <= HistValues[j]

HistMax == CHOOSE v \in { HistValues[j] : j \in 1..Len(series) } :
             \A j \in 1..Len(series) : v >= HistValues[j]

\* C13: for a non-empty list of values the histogram has exactly n counts
\* that add up to the number of values, and exactly n + 1 bin edges that,
\* as returned, are strictly increasing.
C13_HistogramShape ==
  (call.fn = "make_histogram" /\ Len(series) > 0) =>
    /\ Len(out.counts) = call.a
    /\ SumSeq(out.counts) = Len(series)
    /\ Len(out.bins) = call.a + 1
    /\ \A j \in 1..call.a : out.bins[j] < out.bins[j + 1]

\* The values in bin i (0-based) of the equal-width partition of
\* [HistMin, HistMax] into n bins: edge_i <= v < edge_(i+1), the last bin
\* holding the maximum too
InPartitionBin(v, i, n) ==
  \/ /\ n * (v - HistMin) >= i * (HistMax - HistMin)
     /\ n * (v - HistMin) < (i + 1) * (HistMax - HistMin)
  \/ i = n - 1 /\ v = HistMax

\* C14: the bins are the equal-width partition of [min, max], the first
\* edge being the minimum and the last the maximum also when all values are
\* equal; a value is counted in the bin with edge_i <= value < edge_(i+1),
\* the maximum in the last bin.
C14_EqualWidthPartition ==
  (call.fn = "make_histogram" /\ Len(series) > 0) =>
    LET n == call.a
    IN /\ out.bins[1] * HistUnit = 1000 * HistMin
       /\ out.bins[n + 1] * HistUnit = 1000 * HistMax
       /\ \A i \in 0..n :
            IsRounded(out.bins[i + 1],
                      1000 * (n * HistMin + i * (HistMax - HistMin)), n * HistUnit)
       /\ \A i \in 0..(n - 1) :
            out.counts[i + 1] =
              Cardinality({ j \in 1..Len(series) : InPartitionBin(HistValues[j], i, n) })

\* The entries that count for the trend: a valid value satisfying the
\* threshold condition, under a key that begins with a year
Qualifying ==
  { j \in SatIdx(series, call.a, call.s) : HasYear(series[j].d) }

QualifyingYears == { YearOf(series[j].d) : j \in Qualifying }

QualifyingIn(y) == Cardinality({ j \in Qualifying : YearOf(series[j].d) = y })

\* C15: yearly_counts maps exactly the years with at least one valid sample
\* satisfying the condition to the number of such samples, the years
\* ascending and no count below 1; when no sample qualifies the result is
\* empty yearly_counts, slope 0.0 and direction "flat".
C15_YearlyCountsOfQualifyingYears ==
  call.fn = "analyze_trend_yearly_extremes" =>
    LET yc == out.yearly_counts
    IN /\ { yc[k].year : k \in 1..Len(yc) } = QualifyingYears
       /\ \A k \in 1..Len(yc) : yc[k].count = QualifyingIn(yc[k].year) /\ yc[k].count >= 1
       /\ \A k \in 1..(Len(yc) - 1) : yc[k].year < yc[k + 1].year
       /\ Qualifying = {} => out = [yearly_counts |-> << >>, slope |-> 0, trend |-> "flat"]

\* Valid samples in 2018, 2019 and 2020, those of 2019 not qualifying
C15_Witness ==
  /\ call.fn = "analyze_trend_yearly_extremes"
  /\ call.s = "above"
  /\ Len(series) = 4
  /\ { YearOf(series[j].d) : j \in ValidIdx(series) } = {2018, 2019, 2020}
  /\ out.yearly_counts = <<[year |-> 2018, count |-> 1], [year |-> 2020, count |-> 2]>>

\* n * sum(x * y) - sum(x) * sum(y) and n * sum(x * x) - sum(x)^2 over the
\* qualifying years x with their counts y
OlsNum ==
  Cardinality(QualifyingYears)
      * SumSet(QualifyingYears, [y \in QualifyingYears |-> y * QualifyingIn(y)])
    - SumSet(QualifyingYears, [y \in QualifyingYears |-> y])
      * SumSet(QualifyingYears, [y \in QualifyingYears |-> QualifyingIn(y)])

OlsDen ==
  Cardinality(QualifyingYears)
      * SumSet(QualifyingYears, [y \in QualifyingYears |-> y * y])
    - SumSet(QualifyingYears, [y \in QualifyingYears |-> y])
      * SumSet(QualifyingYears, [y \in QualifyingYears |-> y])

\* C16: with qualifying years the returned slope is the least-squares slope
\* of count against year (rounded to 4 decimals; any slope fits a single
\* year), and the returned direction is "increasing" iff the returned slope
\* is above 0, "decreasing" iff below 0, "flat" iff it is 0.
C16_SlopeAndDirectionAgree ==
  (call.fn = "analyze_trend_yearly_extremes" /\ Qualifying # {}) =>
    /\ Cardinality(QualifyingYears) >= 2 => IsRounded(out.slope, 10000 * OlsNum, OlsDen)
    /\ out.trend = "increasing" <=> out.slope > 0
    /\ out.trend = "decreasing" <=> out.slope < 0
    /\ out.trend = "flat" <=> out.slope = 0

----------------------------------------------------------------------------
(* Grid sampling of a polygon *)

\* twice the signed area of the triangle a, b, c
Cross(a, b, c) ==
  (Lon(b) - Lon(a)) * (Lat(c) - Lat(a)) - (Lat(b) - Lat(a)) * (Lon(c) - Lon(a))

Sign(n) == IF n > 0 THEN 1 ELSE IF n < 0 THEN -1 ELSE 0

\* c lies on the closed segment a b
OnSegment(a, b, c) ==
  /\ Cross(a, b, c) = 0
  /\ (Lat(a) <= Lat(c) /\ Lat(c) <= Lat(b)) \/ (Lat(b) <= Lat(c) /\ Lat(c) <= Lat(a))
  /\ (Lon(a) <= Lon(c) /\ Lon(c) <= Lon(b)) \/ (Lon(b) <= Lon(c) /\ Lon(c) <= Lon(a))

\* the closed segments a b and c d have a common point
SegmentsMeet(a, b, c, d) ==
  \/ /\ Sign(Cross(a, b, c)) * Sign(Cross(a, b, d)) < 0
     /\ Sign(Cross(c, d, a)) * Sign(Cross(c, d, b)) < 0
  \/ OnSegment(a, b, c) \/ OnSegment(a, b, d)
  \/ OnSegment(c, d, a) \/ OnSegment(c, d, b)

NextVertex(polygon, i) == polygon[(i % Len(polygon)) + 1]

\* A simple polygon: consecutive edges share their common vertex only, and
\* other edges share nothing.
IsSimple(polygon) ==
  LET n == Len(polygon)
  IN /\ n >= 3
     /\ \A i \in 1..n, j \in 1..n :
          i < j =>
            LET a == polygon[i]
                b == NextVertex(polygon, i)
                c == polygon[j]
                d == NextVertex(polygon, j)
            IN IF b = c /\ d = a THEN FALSE
               ELSE IF b = c THEN ~OnSegment(a, b, d) /\ ~OnSegment(c, d, a)
               ELSE IF d = a THEN ~OnSegment(c, d, b) /\ ~OnSegment(a, b, c)
               ELSE ~SegmentsMeet(a, b, c, d)

InBoundingBox(p, polygon) ==
  /\ MinOf(Lats(polygon)) <= Lat(p) /\ Lat(p) <= MaxOf(Lats(polygon))
  /\ MinOf(Lons(polygon)) <= Lon(p) /\ Lon(p) <= MaxOf(Lons(polygon))

GridCalled == call.fn = "sample_polygon_to_grid"

\* C17: for a simple polygon and any step, every point returned by
\* sample_polygon_to_grid has its latitude and its longitude within the
\* minimum and maximum of the vertices' and passes the even-odd test.
C17_SamplesInBoundingBoxAndInside ==
  (GridCalled /\ IsSimple(series)) =>
    \A j \in 1..Len(out) :
      /\ InBoundingBox(out[j], series)
      /\ _point_in_polygon(Lat(out[j]), Lon(out[j]), series, call.b)

\* The edge a b crosses the ray from the point eastwards, decided exactly.
ExactCrossed(p, a, b) ==
  LET dy == Lat(b) - Lat(a)
      k == (Lon(p) - Lon(a)) * dy - (Lon(b) - Lon(a)) * (Lat(p) - Lat(a))
  IN /\ (Lat(a) > Lat(p)) # (Lat(b) > Lat(p))
     /\ IF dy > 0 THEN k < 0 ELSE k > 0

OnAnEdge(p, polygon) ==
  \E i \in 1..Len(polygon) : OnSegment(polygon[i], NextVertex(polygon, i), p)

\* off every edge and an odd number of edges to the east
StrictlyInside(p, polygon) ==
  /\ ~OnAnEdge(p, polygon)
  /\ Cardinality({ i \in 1..Len(polygon) :
                     ExactCrossed(p, polygon[i], NextVertex(polygon, i)) }) % 2 = 1

\* the grid values of one axis: the origin plus whole steps, within [min, max]
GridLine(coords, step) ==
  { v \in { GridOrigin(MinOf(coords), step) + i * step :
              i \in 0..((MaxOf(coords) - MinOf(coords)) \div step + 1) } :
      MinOf(coords) <= v /\ v <= MaxOf(coords) }

GridPoints(polygon, step) == GridLine(Lats(polygon), step) \X GridLine(Lons(polygon), step)

Returned(p) == \E j \in 1..Len(out) : out[j] = p

\* C18: sample_polygon_to_grid returns every grid point (the origin plus a
\* whole number of steps in each axis, within the bounding box) that lies
\* strictly inside the polygon and off every edge.
C18_EveryInteriorGridPointReturned ==
  (GridCalled /\ IsSimple(series)) =>
    \A p \in GridPoints(series, call.a) : StrictlyInside(p, series) => Returned(p)

----------------------------------------------------------------------------
(* The sampling list of a region request *)

\* the handler of a region request has built its sampling list
RegionSampled ==
  /\ pc # "idle"
  /\ req.endpoint = "region"
  /\ RegionRequestValid(req)
  /\ req.condition_type \in DOMAIN EXTREME_WEATHER_THRESHOLDS

\* what the polygon added to the sampling list, after the explicit points
PolygonPart == SubSeq(points, Len(req.points) + 1, Len(points))

IsMeanOfVertices(c, poly) ==
  /\ Len(poly) * Lat(c) = SumSeq(Lats(poly))
  /\ Len(poly) * Lon(c) = SumSeq(Lons(poly))

GridSamplingEmpty(poly) ==
  Len(sample_polygon_to_grid(poly, UnitsPerDegree \div 2, PicoPerUnit)) = 0

\* C19: a polygon of a region request contributes at least one sample
\* coordinate; when grid sampling returns no point it contributes exactly
\* one, the mean of the vertex latitudes and of the vertex longitudes.
C19_CentroidFallback ==
  (RegionSampled /\ Len(req.polygon) > 0) =>
    /\ Len(PolygonPart) >= 1
    /\ \/ Len(PolygonPart) = 1 /\ IsMeanOfVertices(PolygonPart[1], req.polygon)
       \/ ~GridSamplingEmpty(req.polygon)

C19_Witness ==
  /\ RegionSampled
  /\ req.polygon = TriangleOffGrid
  /\ GridSamplingEmpty(req.polygon)
  /\ Len(req.points) = 1
  /\ points = <<CoordA, <<200, 200>> >>
  /\ pc = "done"
  /\ resp.status = 200

\* the coordinates of a list, as a set
CoordSet(list) == { list[j] : j \in 1..Len(list) }

\* the union of the explicit points and the polygon-derived points
RegionUnion ==
  CoordSet(req.points)
    \cup (IF Len(req.polygon) > 0 THEN CoordSet(PolygonSamples(req.polygon)) ELSE {})

\* C20: the coordinates queried for a region request are the set union of
\* the explicit points and the polygon-derived points: every coordinate is
\* in the list once, is fetched once and counts once in the attempted total.
C20_SamplingListIsSetUnion ==
  RegionSampled =>
    /\ CoordSet(points) = RegionUnion
    /\ Len(points) = Cardinality(RegionUnion)
    /\ Len(fetched) <= Cardinality(RegionUnion)
    /\ (pc = "done" /\ resp.status = 200) =>
         resp.region.total_samples = Cardinality(RegionUnion)

----------------------------------------------------------------------------
(* The threshold of a request *)

\* the supplied custom_threshold, or the condition's default without one
IntendedThreshold(r) ==
  IF r.custom_threshold # None THEN r.custom_threshold
  ELSE EXTREME_WEATHER_THRESHOLDS[r.condition_type].default_threshold

\* C21: a supplied custom_threshold, 0 included, is the threshold echoed in
\* the response and used for the probability; the condition's default is
\* used only when custom_threshold is not supplied.
C21_SuppliedThresholdIsUsed ==
  /\ (Served("probability") /\ resp.status = 200) =>
       /\ resp.threshold = IntendedThreshold(req)
       /\ resp.probability =
            PointProbabilityField(
              calculate_probability(data, IntendedThreshold(req), resp.condition))
  /\ (Served("region") /\ resp.status = 200) =>
       resp.threshold = IntendedThreshold(req)

----------------------------------------------------------------------------
(* The candidates of the grid sampling *)

SamplingRuns == loop.at \in {"lat", "lon", "returned"}

\* v = origin + i * step for a whole number i >= 0
IsGridValue(v, origin, step) == v >= origin /\ (v - origin) % step = 0

\* origin + i * step for every whole i >= 0 with origin + i * step <= max
GridValuesUpTo(origin, max, step) ==
  IF origin > max THEN {}
  ELSE { origin + i * step : i \in 0..((max - origin) \div step) }

Tested(c) == \E j \in 1..Len(loop.tested) : loop.tested[j] = c

\* C22: every candidate tested by sample_polygon_to_grid is gridOrigin plus a
\* whole number of steps in each axis, gridOrigin being the bounding-box
\* minimum rounded to the nearest multiple of step, and when the function
\* returns every such value up to the bounding-box maximum has been tested.
C22_CandidatesAreOriginPlusWholeSteps ==
  SamplingRuns =>
    LET step == call.a
        lat0 == GridOrigin(MinOf(Lats(series)), step)
        lon0 == GridOrigin(MinOf(Lons(series)), step)
    IN /\ \A j \in 1..Len(loop.tested) :
            /\ IsGridValue(Lat(loop.tested[j]), lat0, step)
            /\ IsGridValue(Lon(loop.tested[j]), lon0, step)
       /\ loop.at = "returned" =>
            \A lat \in GridValuesUpTo(lat0, MaxOf(Lats(series)), step),
               lon \in GridValuesUpTo(lon0, MaxOf(Lons(series)), step) :
              Tested(<<lat, lon>>)

----------------------------------------------------------------------------
(* The region request: the loop and the merge *)

\* the outcomes that went through the per-point computation
ComputedOutcomes == SelectSeq(fetched, LAMBDA o : o.kind = "ok")

\* C23: in a region request the merge runs only after the fetch of every
\* sample coordinate has ended with a result or a failure: no response
\* exists while a coordinate is still to be attempted, every coordinate has
\* been attempted once the response exists, and nothing is fetched or
\* computed per point beyond the sample list.
C23_MergeAfterEveryFetch ==
  req.endpoint = "region" =>
    /\ Len(fetched) <= Len(points)
    /\ Len(counts) = Len(ComputedOutcomes)
    /\ Len(fetched) < Len(points) => (pc = "fetch" /\ resp.status = 0)
    /\ pc = "done" => (resp.status # 0 /\ Len(fetched) = Len(points))

C23_Witness ==
  /\ Served("region")
  /\ resp.status = 200
  /\ Len(points) = 2
  /\ Len(fetched) = 2
  /\ fetched[1].kind = "failed"
  /\ fetched[2].kind = "ok"
  /\ resp.region.total_samples = 2
  /\ resp.region.points_used = 1

----------------------------------------------------------------------------
(* The loops of the grid sampling *)

\* a pass of the longitude loop moves lon up, a pass of the latitude loop
\* moves lat up
LoopsAdvance ==
  /\ (loop.at = "lon" /\ loop'.at = "lon") => loop'.lon > loop.lon
  /\ (loop.at = "lon" /\ loop'.at = "lat") => loop'.lat > loop.lat

\* C24: for every polygon of at least 3 vertices and every step > 0 both
\* loops of sample_polygon_to_grid strictly advance on each iteration, so
\* that they end after finitely many iterations.
C24_LoopsStrictlyAdvance == [][LoopsAdvance]_vars

----------------------------------------------------------------------------
(* Trend and probability over the same series *)

RECURSIVE SumOfCounts(_)
SumOfCounts(yc) == IF Len(yc) = 0 THEN 0 ELSE Head(yc).count + SumOfCounts(Tail(yc))

\* C25: for any series, threshold and direction the yearly_counts of
\* analyze_trend_yearly_extremes add up to the number of valid values that
\* calculate_probability counts as satisfying the condition.
C25_TrendCountsAddUpToNumerator ==
  call.fn = "analyze_trend_yearly_extremes" =>
    SumOfCounts(out.yearly_counts) = ExceedingCount(ValidValues(series), call.a, call.s)

====
